---- MODULE Spec2Model ----
(***************************************************************************)
(* A model of ultralytics/models/yolo/yoloe/train.py:                      *)
(*   - YOLOETrainerFromScratch.generate_data_embeddings (the embedding     *)
(*     cache), stepped at the granularity of its file accesses and of the  *)
(*     encoder loop, for one trainer process and for two;                  *)
(*   - YOLOETrainerFromScratch.build_dataset and _get_neg_texts;           *)
(*   - YOLOETrainerFromScratch.get_dataset and final_eval.                 *)
(***************************************************************************)
EXTENDS Integers, Sequences, FiniteSets, TLC

\* ------------------------------------------------------------------------
\* Bounds of the model
\* ------------------------------------------------------------------------
MaxTexts == 2      \* longest label list handed to generate_data_embeddings
MaxBatch == 2      \* largest batch size
MaxCalls == 3      \* calls of generate_data_embeddings by a trainer running alone

Labels == {"cat", "dog"}
CachePaths == {"pos_embeddings.pt", "neg_embeddings.pt"}
Procs == {1, 2}

\* ------------------------------------------------------------------------
\* Helpers on sequences
\* ------------------------------------------------------------------------
Min(a, b) == IF a <= b THEN a ELSE b

Range(s) == {s[i] : i \in 1..Len(s)}

IsPrefix(s, t) == Len(s) <= Len(t) /\ SubSeq(t, 1, Len(s)) = s

\* Sequences over S of length at most n in which no element repeats
RECURSIVE SeqsOfLen(_, _)
SeqsOfLen(S, n) ==
    IF n = 0 THEN {<<>>}
    ELSE {Append(s, x) : s \in SeqsOfLen(S, n - 1), x \in S}

DistinctSeqs(S, n) ==
    {s \in UNION {SeqsOfLen(S, k) : k \in 0..n} :
        \A i, j \in 1..Len(s) : i # j => s[i] # s[j]}

\* The label lists a caller passes: a set (category_names) or the keys of a
\* dict (neg_names), iterated in some order, so never a repeated label.
TextLists == DistinctSeqs(Labels, MaxTexts)

\* ------------------------------------------------------------------------
\* The text encoder and the tensor operations of generate_data_embeddings
\* ------------------------------------------------------------------------
\* model.tokenize(texts): one token row per label, in iteration order
Tokenize(texts) == [i \in 1..Len(texts) |-> <<"tok", texts[i]>>]

\* Tensor.split(batch): consecutive chunks of `batch` rows, the last one
\* shorter; a tensor of no rows splits into one chunk of no rows.
RECURSIVE Split(_, _)
Split(rows, b) ==
    IF Len(rows) <= b THEN <<rows>>
    ELSE <<SubSeq(rows, 1, b)>> \o Split(SubSeq(rows, b + 1, Len(rows)), b)

\* model.encode_text(text_token): one feature row per token row
EncodeText(chunk) == [i \in 1..Len(chunk) |-> <<"feat", chunk[i][2]>>]

\* torch.cat(txt_feats, dim=0)
RECURSIVE Cat(_)
Cat(chunks) == IF chunks = <<>> THEN <<>> ELSE Head(chunks) \o Cat(Tail(chunks))

\* {text: feat for text, feat in zip(texts, txt_feats)}
TxtMap(texts, feats) ==
    [t \in {texts[i] : i \in 1..Min(Len(texts), Len(feats))} |->
        feats[CHOOSE i \in 1..Min(Len(texts), Len(feats)) :
                 /\ texts[i] = t
                 /\ \A j \in 1..Min(Len(texts), Len(feats)) : texts[j] = t => j <= i]]

EmptyMap == [t \in {} |-> <<>>]

\* A cache file: absent, being written by torch.save, or holding a mapping
Absent == [state |-> "absent", map |-> EmptyMap]
Partial == [state |-> "partial", map |-> EmptyMap]
Saved(m) == [state |-> "saved", map |-> m]

\* ------------------------------------------------------------------------
\* State
\* ------------------------------------------------------------------------
VARIABLES
    procs,        \* the trainer processes that run
    file,         \* cache path -> the cache file
    pc,           \* process -> its position in generate_data_embeddings
    texts,        \* process -> argument texts of its call
    batch,        \* process -> argument batch
    cache_path,   \* process -> argument cache_path
    text_tokens,  \* process -> the chunks of text_tokens.split(batch)
    txt_feats,    \* process -> the list txt_feats
    outcome,      \* process -> how its last call ended
    ret,          \* process -> the mapping its last call returned
    encLog,       \* process -> chunks given to encode_text in this call
    builds,       \* process -> build_text_model calls in this call
    calls,        \* process -> calls started
    stored,       \* path -> mapping returned and stored by a completed call
    seenStored,   \* process -> stored[cache_path] as its call began
    failed,       \* path -> the latest call with that path died in the encoder loop
    afterFail,    \* process -> failed[cache_path] as its call began
    sawAbsent,    \* process -> its exists() check found no file
    writes,       \* path -> completed torch.save calls
    \* build_dataset
    bpc,             \* position in build_dataset
    mode,            \* argument mode
    img_path,        \* argument img_path: the list of source entries
    bbatch,          \* argument batch
    datasets,        \* the list datasets
    category_names,  \* the set category_names
    category_freq,   \* the dict category_freq
    neg_names,       \* the list neg_names
    pos_embeddings,  \* the mapping pos_embeddings
    neg_embeddings,  \* the mapping neg_embeddings
    result,          \* what build_dataset returned
    berror,          \* the exception that left build_dataset
    \* get_dataset and final_eval
    dpc,             \* position in get_dataset / final_eval
    data_yaml,       \* self.args.data
    checked,         \* the arguments of the check_det_dataset calls so far
    data,            \* the local data of get_dataset
    val_split,       \* the local val_split
    final_data,      \* the local final_data
    self_data,       \* self.data
    training_data,   \* self.training_data
    dret,            \* what get_dataset returned
    derror,          \* the exception that left get_dataset
    validator_args   \* self.validator.args: data and split

embVars == <<procs, file, pc, texts, batch, cache_path, text_tokens, txt_feats,
             outcome, ret, encLog, builds, calls, stored, seenStored, failed,
             afterFail, sawAbsent, writes>>

buildVars == <<bpc, mode, img_path, bbatch, datasets, category_names, category_freq,
               neg_names, pos_embeddings, neg_embeddings, result, berror>>

dataVars == <<dpc, data_yaml, checked, data, val_split, final_data, self_data,
              training_data, dret, derror, validator_args>>

vars == <<embVars, buildVars, dataVars>>

NoMap == [known |-> FALSE, map |-> EmptyMap]
SomeMap(m) == [known |-> TRUE, map |-> m]

EmbInit(ps) ==
    /\ procs = ps
    /\ pc = [p \in Procs |-> "idle"]
    /\ texts = [p \in Procs |-> <<>>]
    /\ batch = [p \in Procs |-> 1]
    /\ cache_path = [p \in Procs |-> "pos_embeddings.pt"]
    /\ text_tokens = [p \in Procs |-> <<>>]
    /\ txt_feats = [p \in Procs |-> <<>>]
    /\ outcome = [p \in Procs |-> "none"]
    /\ ret = [p \in Procs |-> EmptyMap]
    /\ encLog = [p \in Procs |-> <<>>]
    /\ builds = [p \in Procs |-> 0]
    /\ calls = [p \in Procs |-> 0]
    /\ stored = [c \in CachePaths |-> NoMap]
    /\ seenStored = [p \in Procs |-> NoMap]
    /\ failed = [c \in CachePaths |-> FALSE]
    /\ afterFail = [p \in Procs |-> FALSE]
    /\ sawAbsent = [p \in Procs |-> FALSE]
    /\ writes = [c \in CachePaths |-> 0]

\* ------------------------------------------------------------------------
\* generate_data_embeddings(texts, batch, device, cache_path)
\* ------------------------------------------------------------------------
\* The call: arguments bound, nothing done yet
Call(p) ==
    /\ p \in procs
    /\ pc[p] = "idle"
    /\ IF procs = {p} THEN calls[p] < MaxCalls ELSE calls[p] = 0
    /\ \E t \in TextLists, b \in 1..MaxBatch, c \in CachePaths :
        /\ texts' = [texts EXCEPT ![p] = t]
        /\ batch' = [batch EXCEPT ![p] = b]
        /\ cache_path' = [cache_path EXCEPT ![p] = c]
        /\ seenStored' = [seenStored EXCEPT ![p] = stored[c]]
        /\ afterFail' = [afterFail EXCEPT ![p] = failed[c]]
    /\ calls' = [calls EXCEPT ![p] = @ + 1]
    /\ pc' = [pc EXCEPT ![p] = "exists"]
    /\ outcome' = [outcome EXCEPT ![p] = "none"]
    /\ ret' = [ret EXCEPT ![p] = EmptyMap]
    /\ encLog' = [encLog EXCEPT ![p] = <<>>]
    /\ builds' = [builds EXCEPT ![p] = 0]
    /\ text_tokens' = [text_tokens EXCEPT ![p] = <<>>]
    /\ txt_feats' = [txt_feats EXCEPT ![p] = <<>>]
    /\ sawAbsent' = [sawAbsent EXCEPT ![p] = FALSE]
    /\ UNCHANGED <<buildVars, dataVars>>
    /\ UNCHANGED <<procs, file, stored, failed, writes>>

\* Mutant: the check looks somewhere the cache file never is
CacheExistsNever(p) == FALSE

\* Mutant: the check also waits on a process that is computing that file
CacheExistsLocked(p) ==
    \/ file[cache_path[p]].state # "absent"
    \/ \E q \in procs \ {p} :
          /\ cache_path[q] = cache_path[p]
          /\ pc[q] \in {"build", "encode", "saving"}

\* cache_path.exists(): true of a file that is there, whatever it holds
CacheExists(p) == file[cache_path[p]].state # "absent"

\* if cache_path.exists():
Exists(p) ==
    /\ p \in procs
    /\ pc[p] = "exists"
    /\ IF CacheExists(p)
         THEN /\ pc' = [pc EXCEPT ![p] = "load"]
              /\ UNCHANGED sawAbsent
         ELSE /\ pc' = [pc EXCEPT ![p] = "build"]
              /\ sawAbsent' = [sawAbsent EXCEPT ![p] = TRUE]
    /\ UNCHANGED <<buildVars, dataVars>>
    /\ UNCHANGED <<procs, file, texts, batch, cache_path, text_tokens, txt_feats,
                   outcome, ret, encLog, builds, calls, stored, seenStored,
                   failed, afterFail, writes>>

\* return torch.load(cache_path): the stored mapping verbatim; a file that
\* torch.save has not finished writing does not unpickle
Load(p) ==
    /\ p \in procs
    /\ pc[p] = "load"
    /\ IF file[cache_path[p]].state = "saved"
         THEN /\ ret' = [ret EXCEPT ![p] = file[cache_path[p]].map]
              /\ outcome' = [outcome EXCEPT ![p] = "hit"]
              /\ failed' = [failed EXCEPT ![cache_path[p]] = FALSE]
         ELSE /\ ret' = [ret EXCEPT ![p] = EmptyMap]
              /\ outcome' = [outcome EXCEPT ![p] = "LoadError"]
              /\ UNCHANGED failed
    /\ pc' = [pc EXCEPT ![p] = "idle"]
    /\ UNCHANGED <<buildVars, dataVars>>
    /\ UNCHANGED <<procs, file, texts, batch, cache_path, text_tokens, txt_feats,
                   encLog, builds, calls, stored, seenStored, afterFail,
                   sawAbsent, writes>>

\* model = build_text_model(...); text_tokens = model.tokenize(texts);
\* txt_feats = []; the chunks of text_tokens.split(batch)
BuildTextModel(p) ==
    /\ p \in procs
    /\ pc[p] = "build"
    /\ builds' = [builds EXCEPT ![p] = @ + 1]
    /\ text_tokens' = [text_tokens EXCEPT ![p] = Split(Tokenize(texts[p]), batch[p])]
    /\ txt_feats' = [txt_feats EXCEPT ![p] = <<>>]
    /\ pc' = [pc EXCEPT ![p] = "encode"]
    /\ UNCHANGED <<buildVars, dataVars>>
    /\ UNCHANGED <<procs, file, texts, batch, cache_path, outcome, ret, encLog,
                   calls, stored, seenStored, failed, afterFail, sawAbsent, writes>>

\* Mutant: the loop checkpoints the mapping of the chunks encoded so far
EncodeBatchCheckpoint(p) ==
    /\ p \in procs
    /\ pc[p] = "encode"
    /\ Len(txt_feats[p]) < Len(text_tokens[p])
    /\ LET chunk == text_tokens[p][Len(txt_feats[p]) + 1] IN
        /\ txt_feats' = [txt_feats EXCEPT ![p] = Append(@, EncodeText(chunk))]
        /\ encLog' = [encLog EXCEPT ![p] = Append(@, chunk)]
        /\ file' = [file EXCEPT ![cache_path[p]] =
                       Saved(TxtMap(texts[p], Cat(Append(txt_feats[p], EncodeText(chunk)))))]
    /\ UNCHANGED <<buildVars, dataVars>>
    /\ UNCHANGED <<procs, pc, texts, batch, cache_path, text_tokens, outcome,
                   ret, builds, calls, stored, seenStored, failed, afterFail,
                   sawAbsent, writes>>

\* One round of the loop: txt_feats.append(model.encode_text(text_token))
EncodeBatch(p) ==
    /\ p \in procs
    /\ pc[p] = "encode"
    /\ Len(txt_feats[p]) < Len(text_tokens[p])
    /\ LET chunk == text_tokens[p][Len(txt_feats[p]) + 1] IN
        /\ txt_feats' = [txt_feats EXCEPT ![p] = Append(@, EncodeText(chunk))]
        /\ encLog' = [encLog EXCEPT ![p] = Append(@, chunk)]
    /\ UNCHANGED <<buildVars, dataVars>>
    /\ UNCHANGED <<procs, file, pc, texts, batch, cache_path, text_tokens, outcome,
                   ret, builds, calls, stored, seenStored, failed, afterFail,
                   sawAbsent, writes>>

\* encode_text raises on the next chunk, or the process dies there: the
\* exception leaves generate_data_embeddings and txt_feats is dropped
EncodeFails(p) ==
    /\ p \in procs
    /\ pc[p] = "encode"
    /\ Len(txt_feats[p]) < Len(text_tokens[p])
    /\ encLog' = [encLog EXCEPT ![p] = Append(@, text_tokens[p][Len(txt_feats[p]) + 1])]
    /\ txt_feats' = [txt_feats EXCEPT ![p] = <<>>]
    /\ text_tokens' = [text_tokens EXCEPT ![p] = <<>>]
    /\ outcome' = [outcome EXCEPT ![p] = "EncodeError"]
    /\ ret' = [ret EXCEPT ![p] = EmptyMap]
    /\ failed' = [failed EXCEPT ![cache_path[p]] = TRUE]
    /\ pc' = [pc EXCEPT ![p] = "idle"]
    /\ UNCHANGED <<buildVars, dataVars>>
    /\ UNCHANGED <<procs, file, texts, batch, cache_path, builds, calls, stored,
                   seenStored, afterFail, sawAbsent, writes>>

\* The loop is over: txt_feats = torch.cat(txt_feats).cpu(); txt_map = {...};
\* torch.save(txt_map, cache_path) opens the file for writing
SaveBegin(p) ==
    /\ p \in procs
    /\ pc[p] = "encode"
    /\ Len(txt_feats[p]) = Len(text_tokens[p])
    /\ ret' = [ret EXCEPT ![p] = TxtMap(texts[p], Cat(txt_feats[p]))]
    /\ file' = [file EXCEPT ![cache_path[p]] = Partial]
    /\ pc' = [pc EXCEPT ![p] = "saving"]
    /\ UNCHANGED <<buildVars, dataVars>>
    /\ UNCHANGED <<procs, texts, batch, cache_path, text_tokens, txt_feats, outcome,
                   encLog, builds, calls, stored, seenStored, failed, afterFail,
                   sawAbsent, writes>>

\* torch.save has written txt_map; return txt_map
SaveEnd(p) ==
    /\ p \in procs
    /\ pc[p] = "saving"
    /\ file' = [file EXCEPT ![cache_path[p]] = Saved(ret[p])]
    /\ writes' = [writes EXCEPT ![cache_path[p]] = @ + 1]
    /\ stored' = [stored EXCEPT ![cache_path[p]] = SomeMap(ret[p])]
    /\ outcome' = [outcome EXCEPT ![p] = "miss"]
    /\ failed' = [failed EXCEPT ![cache_path[p]] = FALSE]
    /\ pc' = [pc EXCEPT ![p] = "idle"]
    /\ UNCHANGED <<buildVars, dataVars>>
    /\ UNCHANGED <<procs, texts, batch, cache_path, text_tokens, txt_feats, ret,
                   encLog, builds, calls, seenStored, afterFail, sawAbsent>>

EmbNext ==
    \E p \in Procs :
        \/ Call(p)
        \/ Exists(p)
        \/ Load(p)
        \/ BuildTextModel(p)
        \/ EncodeBatch(p)
        \/ EncodeFails(p)
        \/ SaveBegin(p)
        \/ SaveEnd(p)

\* ------------------------------------------------------------------------
\* build_dataset(img_path, mode, batch) and _get_neg_texts
\* ------------------------------------------------------------------------
MaxSources == 2    \* longest img_path list

\* threshold=100 of the _get_neg_texts call
Threshold == 100

\* A dict is the sequence of its items, <<key, value>>, in insertion order
DictKeys(d) == {d[i][1] : i \in 1..Len(d)}
DictGet(d, k) == d[CHOOSE i \in 1..Len(d) : d[i][1] = k][2]

\* category_freq[k] += v on a defaultdict(int)
DictAdd(d, k, v) ==
    IF k \in DictKeys(d)
      THEN [i \in 1..Len(d) |-> IF d[i][1] = k THEN <<k, d[i][2] + v>> ELSE d[i]]
      ELSE Append(d, <<k, 0 + v>>)

\* for k, v in dataset.category_freq.items(): category_freq[k] += v
RECURSIVE AddItems(_, _)
AddItems(d, items) ==
    IF items = <<>> THEN d
    ELSE AddItems(DictAdd(d, Head(items)[1], Head(items)[2]), Tail(items))

\* What the dataset builders make of the source entries: a plain path (a
\* str) goes to build_yolo_dataset, a dict to build_grounding. A built
\* dataset may or may not carry category_names and category_freq, and each
\* stage of its transforms may or may not have set_embeddings.
Stage(s) == [settable |-> s, got |-> <<>>]

Sources ==
    {[type |-> "str",  id |-> "coco",
      hasNames |-> TRUE, names |-> {"cat", "dog"},
      hasFreq |-> TRUE, freq |-> << <<"cat", 50>>, <<"dog", 99>> >>,
      stages |-> <<FALSE, TRUE>>],
     [type |-> "dict", id |-> "flickr",
      hasNames |-> TRUE, names |-> {"cat", "dog"},
      hasFreq |-> TRUE, freq |-> << <<"dog", 1>>, <<"cat", 50>> >>,
      stages |-> <<TRUE>>],
     [type |-> "str",  id |-> "plain",
      hasNames |-> FALSE, names |-> {},
      hasFreq |-> FALSE, freq |-> <<>>,
      stages |-> <<FALSE>>],
     [type |-> "dict", id |-> "gqa",
      hasNames |-> TRUE, names |-> {"cat", "dog"},
      hasFreq |-> TRUE, freq |-> << <<"cat", 49>>, <<"dog", 1>> >>,
      stages |-> <<TRUE, TRUE>>],
     [type |-> "str",  id |-> "o365",
      hasNames |-> TRUE, names |-> {"dog"},
      hasFreq |-> TRUE, freq |-> << <<"dog", 100>> >>,
      stages |-> <<FALSE, TRUE>>],
     [type |-> "dict", id |-> "names_only",
      hasNames |-> TRUE, names |-> {"dog"},
      hasFreq |-> FALSE, freq |-> <<>>,
      stages |-> <<>>]}

\* build_yolo_dataset(..., multi_modal=True) / build_grounding(...)
BuildSource(e) ==
    [builder |-> IF e.type = "str" THEN "build_yolo_dataset" ELSE "build_grounding",
     src |-> e.id,
     hasNames |-> e.hasNames, category_names |-> e.names,
     hasFreq |-> e.hasFreq, category_freq |-> e.freq,
     transforms |-> [i \in 1..Len(e.stages) |-> Stage(e.stages[i])]]

\* build_yolo_dataset(..., mode=mode, rect=False, load_vp=False) of the
\* other modes: one dataset, no text embeddings
BuildPlain(e) ==
    [builder |-> "build_yolo_dataset", src |-> e.id,
     hasNames |-> FALSE, category_names |-> {},
     hasFreq |-> FALSE, category_freq |-> <<>>,
     transforms |-> [i \in 1..Len(e.stages) |-> Stage(FALSE)]]

NoResult == [kind |-> "none", members |-> <<>>]

BuildIdle ==
    /\ bpc = "off"
    /\ mode = "train"
    /\ img_path = <<>>
    /\ bbatch = 1
    /\ datasets = <<>>
    /\ category_names = {}
    /\ category_freq = <<>>
    /\ neg_names = <<>>
    /\ pos_embeddings = EmptyMap
    /\ neg_embeddings = EmptyMap
    /\ result = NoResult
    /\ berror = "none"

\* if mode != "train": return build_yolo_dataset(...)
BuildOtherMode ==
    /\ bpc = "start"
    /\ mode # "train"
    /\ result' = [kind |-> "dataset", members |-> <<BuildPlain(img_path[1])>>]
    /\ bpc' = "done"
    /\ UNCHANGED <<mode, img_path, bbatch, datasets, category_names, category_freq,
                   neg_names, pos_embeddings, neg_embeddings, berror>>
    /\ UNCHANGED <<embVars, dataVars>>

\* datasets = [build_yolo_dataset(...) if isinstance(im_path, str)
\*             else build_grounding(...) for im_path in img_path]
BuildDatasets ==
    /\ bpc = "start"
    /\ mode = "train"
    /\ datasets' = [i \in 1..Len(img_path) |-> BuildSource(img_path[i])]
    /\ bpc' = "built"
    /\ UNCHANGED <<mode, img_path, bbatch, category_names, category_freq, neg_names,
                   pos_embeddings, neg_embeddings, result, berror>>
    /\ UNCHANGED <<embVars, dataVars>>

\* The loop over datasets that have category_names
RECURSIVE UnionNames(_)
UnionNames(ds) ==
    IF ds = <<>> THEN {}
    ELSE (IF Head(ds).hasNames THEN Head(ds).category_names ELSE {})
         \cup UnionNames(Tail(ds))

CollectNames ==
    /\ bpc = "built"
    /\ category_names' = UnionNames(datasets)
    /\ bpc' = "named"
    /\ UNCHANGED <<mode, img_path, bbatch, datasets, category_freq, neg_names,
                   pos_embeddings, neg_embeddings, result, berror>>
    /\ UNCHANGED <<embVars, dataVars>>

\* The loop over datasets that have category_freq
RECURSIVE SumFreq(_, _)
SumFreq(d, ds) ==
    IF ds = <<>> THEN d
    ELSE SumFreq(IF Head(ds).hasFreq THEN AddItems(d, Head(ds).category_freq) ELSE d,
                 Tail(ds))

\* Mutant: the threshold itself does not qualify
GetNegTextsAbove(freq, threshold) ==
    LET kept == SelectSeq(freq, LAMBDA kv : kv[2] > threshold)
    IN  [i \in 1..Len(kept) |-> kept[i][1]]

\* _get_neg_texts: [k for k, v in category_freq.items() if v >= threshold]
GetNegTexts(freq, threshold) ==
    LET kept == SelectSeq(freq, LAMBDA kv : kv[2] >= threshold)
    IN  [i \in 1..Len(kept) |-> kept[i][1]]

CollectFreq ==
    /\ bpc = "named"
    /\ category_freq' = SumFreq(<<>>, datasets)
    /\ neg_names' = GetNegTexts(SumFreq(<<>>, datasets), Threshold)
    /\ bpc' = "counted"
    /\ UNCHANGED <<mode, img_path, bbatch, datasets, category_names,
                   pos_embeddings, neg_embeddings, result, berror>>
    /\ UNCHANGED <<embVars, dataVars>>

\* generate_data_embeddings run from its call to its return on the files f,
\* by a trainer with no other process beside it
RECURSIVE EncodeAll(_)
EncodeAll(chunks) ==
    IF chunks = <<>> THEN <<>>
    ELSE <<EncodeText(Head(chunks))>> \o EncodeAll(Tail(chunks))

GenerateDataEmbeddings(f, t, b, c) ==
    IF f[c].state # "absent"
      THEN [ret |-> f[c].map, file |-> f]
      ELSE LET m == TxtMap(t, Cat(EncodeAll(Split(Tokenize(t), b))))
           IN  [ret |-> m, file |-> [f EXCEPT ![c] = Saved(m)]]

\* The orders in which a set may be iterated
Orders(S) == {t \in DistinctSeqs(S, Cardinality(S)) : Len(t) = Cardinality(S)}

\* img_path = datasets[0].img_path fails on an empty list
NoDatasets ==
    /\ bpc = "counted"
    /\ datasets = <<>>
    /\ berror' = "IndexError"
    /\ bpc' = "error"
    /\ UNCHANGED <<mode, img_path, bbatch, datasets, category_names, category_freq,
                   neg_names, pos_embeddings, neg_embeddings, result>>
    /\ UNCHANGED <<embVars, dataVars>>

\* pos_embeddings = self.generate_data_embeddings(category_names, batch, ...,
\*     cache_path=Path(img_path).parent / "pos_embeddings.pt")
PosEmbeddings ==
    /\ bpc = "counted"
    /\ datasets # <<>>
    /\ \E t \in Orders(category_names) :
         LET g == GenerateDataEmbeddings(file, t, bbatch, "pos_embeddings.pt") IN
           /\ pos_embeddings' = g.ret
           /\ file' = g.file
    /\ bpc' = "pos"
    /\ UNCHANGED <<mode, img_path, bbatch, datasets, category_names, category_freq,
                   neg_names, neg_embeddings, result, berror>>
    /\ UNCHANGED <<procs, pc, texts, batch, cache_path, text_tokens, txt_feats,
                   outcome, ret, encLog, builds, calls, stored, seenStored, failed,
                   afterFail, sawAbsent, writes>>
    /\ UNCHANGED dataVars

\* neg_embeddings = self.generate_data_embeddings(neg_names, batch, ...,
\*     cache_path=Path(img_path).parent / "neg_embeddings.pt")
NegEmbeddings ==
    /\ bpc = "pos"
    /\ LET g == GenerateDataEmbeddings(file, neg_names, bbatch, "neg_embeddings.pt") IN
         /\ neg_embeddings' = g.ret
         /\ file' = g.file
    /\ bpc' = "neg"
    /\ UNCHANGED <<mode, img_path, bbatch, datasets, category_names, category_freq,
                   neg_names, pos_embeddings, result, berror>>
    /\ UNCHANGED <<procs, pc, texts, batch, cache_path, text_tokens, txt_feats,
                   outcome, ret, encLog, builds, calls, stored, seenStored, failed,
                   afterFail, sawAbsent, writes>>
    /\ UNCHANGED dataVars

\* The encoder raises inside one of the two generate_data_embeddings calls,
\* which then has written nothing
EmbeddingsFail ==
    /\ \/ bpc = "counted" /\ datasets # <<>> /\ file["pos_embeddings.pt"].state = "absent"
       \/ bpc = "pos" /\ file["neg_embeddings.pt"].state = "absent"
    /\ berror' = "EncodeError"
    /\ bpc' = "error"
    /\ UNCHANGED <<mode, img_path, bbatch, datasets, category_names, category_freq,
                   neg_names, pos_embeddings, neg_embeddings, result>>
    /\ UNCHANGED <<embVars, dataVars>>

\* transform.set_embeddings(pos_embeddings, neg_embeddings)
SetEmbeddings(stage, pos, neg) ==
    [stage EXCEPT !.got = Append(@, [pos |-> pos, neg |-> neg])]

\* Mutant: only the first dataset is given the embeddings
InjectFirstOnly(ds, pos, neg) ==
    [i \in 1..Len(ds) |->
        [ds[i] EXCEPT !.transforms =
            [j \in 1..Len(ds[i].transforms) |->
                IF ds[i].transforms[j].settable /\ i = 1
                  THEN SetEmbeddings(ds[i].transforms[j], pos, neg)
                  ELSE ds[i].transforms[j]]]]

\* for dataset in datasets: for i, transform in enumerate(...): if the
\* stage has set_embeddings, call it
Inject(ds, pos, neg) ==
    [i \in 1..Len(ds) |->
        [ds[i] EXCEPT !.transforms =
            [j \in 1..Len(ds[i].transforms) |->
                IF ds[i].transforms[j].settable
                  THEN SetEmbeddings(ds[i].transforms[j], pos, neg)
                  ELSE ds[i].transforms[j]]]]

InjectEmbeddings ==
    /\ bpc = "neg"
    /\ datasets' = Inject(datasets, pos_embeddings, neg_embeddings)
    /\ bpc' = "injected"
    /\ UNCHANGED <<mode, img_path, bbatch, category_names, category_freq, neg_names,
                   pos_embeddings, neg_embeddings, result, berror>>
    /\ UNCHANGED <<embVars, dataVars>>

\* Mutant: a single dataset is wrapped too
ConcatAlways(ds) == [kind |-> "concat", members |-> ds]

\* YOLOConcatDataset(datasets) if len(datasets) > 1 else datasets[0]
ConcatOrSingle(ds) ==
    IF Len(ds) > 1 THEN [kind |-> "concat", members |-> ds]
    ELSE [kind |-> "dataset", members |-> <<ds[1]>>]

ReturnDataset ==
    /\ bpc = "injected"
    /\ result' = ConcatOrSingle(datasets)
    /\ bpc' = "done"
    /\ UNCHANGED <<mode, img_path, bbatch, datasets, category_names, category_freq,
                   neg_names, pos_embeddings, neg_embeddings, berror>>
    /\ UNCHANGED <<embVars, dataVars>>

NextBuild ==
    \/ BuildOtherMode
    \/ BuildDatasets
    \/ CollectNames
    \/ CollectFreq
    \/ NoDatasets
    \/ PosEmbeddings
    \/ NegEmbeddings
    \/ EmbeddingsFail
    \/ InjectEmbeddings
    \/ ReturnDataset

\* ------------------------------------------------------------------------
\* get_dataset() and final_eval()
\* ------------------------------------------------------------------------
MaxYolo == 2       \* longest yolo_data list of a section of the configuration

\* Strings are sequences of characters; `sub in s` of two str
Contains(sub, s) ==
    \E i \in 0..(Len(s) - Len(sub)) : SubSeq(s, i + 1, i + Len(sub)) = sub

Lvis == <<"l", "v", "i", "s">>

\* str(a / b) of pathlib: an absolute b stands alone
PathJoin(a, b) == IF b # <<>> /\ b[1] = "/" THEN b ELSE a \o <<"/">> \o b

\* The dataset YAML files: lvis.y, coco.y, my.y, lvisx.y and odd.y
LvisYaml == Lvis \o <<".", "y">>
CocoYaml == <<"c", "o", "c", "o", ".", "y">>
MyYaml == <<"m", "y", ".", "y">>
LvisxYaml == Lvis \o <<"x", ".", "y">>
OddYaml == <<"o", "d", "d", ".", "y">>

YamlNames == {LvisYaml, CocoYaml, MyYaml, LvisxYaml, OddYaml}
TrainYamlNames == {CocoYaml, LvisYaml}

Descriptor(name, root, hasMinival, nc) ==
    [yaml |-> name,
     path |-> root,
     train |-> root \o <<"/", "t">>,
     val |-> root \o <<"/", "v">>,
     hasMinival |-> hasMinival,
     minival |-> IF hasMinival THEN <<"m">> ELSE <<>>,
     nc |-> nc,
     names |-> nc]

\* check_det_dataset(d): the descriptor of the dataset the YAML file d
\* describes. lvis.y lies under /d/lvis and has a minival split, coco.y
\* under /d/coco without one, my.y is a copy of LVIS under /d/lvis2,
\* lvisx.y keeps LVIS under /d/LV, odd.y lies under /d/lvis3 without a
\* minival split.
CheckDetDataset(d) ==
    CASE d = LvisYaml -> Descriptor(d, <<"/", "d", "/">> \o Lvis, TRUE, 3)
      [] d = CocoYaml -> Descriptor(d, <<"/", "d", "/", "c", "o", "c", "o">>, FALSE, 2)
      [] d = MyYaml -> Descriptor(d, <<"/", "d", "/">> \o Lvis \o <<"2">>, TRUE, 3)
      [] d = LvisxYaml -> Descriptor(d, <<"/", "d", "/", "L", "V">>, TRUE, 3)
      [] OTHER -> Descriptor(d, <<"/", "d", "/">> \o Lvis \o <<"3">>, FALSE, 1)

\* A section of the configuration, data_yaml["train"] or data_yaml["val"]:
\* the key may be missing; a dict may or may not have yolo_data, and its
\* grounding_data is absent, one dict, a list of dicts, or a str
Grounding(kind) ==
    [kind |-> kind,
     items |-> CASE kind = "none" -> <<>>
                 [] kind = "dict" -> << <<"g", "1">> >>
                 [] kind = "list" -> << <<"g", "1">>, <<"g", "2">> >>
                 [] OTHER -> << <<"g", ".", "j">> >>]

Sections(names) ==
    {[present |-> FALSE, hasYolo |-> FALSE, yolo_data |-> <<>>, grounding |-> Grounding("none")]}
    \cup {[present |-> TRUE, hasYolo |-> FALSE, yolo_data |-> <<>>, grounding |-> Grounding(g)] :
            g \in {"none", "dict", "list", "str"}}
    \cup {[present |-> TRUE, hasYolo |-> TRUE, yolo_data |-> y, grounding |-> Grounding(g)] :
            y \in DistinctSeqs(names, MaxYolo), g \in {"none", "dict", "list", "str"}}

\* data_yaml.get(s, False) as a condition: the key is there and its dict
\* is not empty
Truthy(section) ==
    section.present /\ (section.hasYolo \/ section.grounding.kind # "none")

Unset == [set |-> FALSE, train |-> <<>>, val |-> <<>>, nc |-> 0, names |-> 0, path |-> <<>>]
NoReturn == [returned |-> FALSE, train |-> <<>>, val |-> [type |-> "str", at |-> <<>>]]
NoArgs == [set |-> FALSE, data |-> <<>>, split |-> "none"]
NoTrainingData == [set |-> FALSE, map |-> <<>>]

DataRest ==
    /\ checked = <<>>
    /\ data = [train |-> <<>>, val |-> <<>>]
    /\ val_split = "none"
    /\ final_data = Unset
    /\ self_data = Unset
    /\ training_data = NoTrainingData
    /\ dret = NoReturn
    /\ derror = "none"
    /\ validator_args = NoArgs

DataIdle ==
    /\ dpc = "off"
    /\ data_yaml = [train |-> CHOOSE x \in Sections({}) : ~x.present,
                    val |-> CHOOSE x \in Sections({}) : ~x.present]
    /\ DataRest

Raise(e) ==
    /\ derror' = e
    /\ dpc' = "error"

\* data = {k: [check_det_dataset(d) for d in v.get("yolo_data", [])]
\*         for k, v in data_yaml.items()}
CheckAll(cfg) ==
    [train |-> [i \in 1..Len(cfg.train.yolo_data) |-> CheckDetDataset(cfg.train.yolo_data[i])],
     val |-> [i \in 1..Len(cfg.val.yolo_data) |-> CheckDetDataset(cfg.val.yolo_data[i])]]

\* Mutant: the datasets are checked before the train section is looked at
CheckThenAssertTrain ==
    /\ dpc = "start"
    /\ checked' = data_yaml.train.yolo_data \o data_yaml.val.yolo_data
    /\ IF Truthy(data_yaml.train)
         THEN dpc' = "train_ok" /\ UNCHANGED derror
         ELSE Raise("AssertionError")
    /\ UNCHANGED <<data_yaml, data, val_split, final_data, self_data, training_data,
                   dret, validator_args>>
    /\ UNCHANGED <<embVars, buildVars>>

\* assert data_yaml.get("train", False), "train dataset not found"
AssertTrain ==
    /\ dpc = "start"
    /\ IF Truthy(data_yaml.train)
         THEN dpc' = "train_ok" /\ UNCHANGED derror
         ELSE Raise("AssertionError")
    /\ UNCHANGED <<data_yaml, checked, data, val_split, final_data, self_data,
                   training_data, dret, validator_args>>
    /\ UNCHANGED <<embVars, buildVars>>

\* assert data_yaml.get("val", False), "validation dataset not found"
AssertVal ==
    /\ dpc = "train_ok"
    /\ IF Truthy(data_yaml.val)
         THEN dpc' = "val_ok" /\ UNCHANGED derror
         ELSE Raise("AssertionError")
    /\ UNCHANGED <<data_yaml, checked, data, val_split, final_data, self_data,
                   training_data, dret, validator_args>>
    /\ UNCHANGED <<embVars, buildVars>>

\* The dict comprehension: every yolo_data entry of every section is checked
CheckDatasets ==
    /\ dpc = "val_ok"
    /\ data' = CheckAll(data_yaml)
    /\ checked' = checked \o data_yaml.train.yolo_data \o data_yaml.val.yolo_data
    /\ dpc' = "checked"
    /\ UNCHANGED <<data_yaml, val_split, final_data, self_data, training_data, dret,
                   derror, validator_args>>
    /\ UNCHANGED <<embVars, buildVars>>

\* Mutant: an empty list is all that is refused
SingleValAtLeastOne(d) == Len(d.val) >= 1

\* len(data["val"]) == 1
SingleVal(d) == Len(d.val) = 1

\* assert len(data["val"]) == 1, "Only support validating on 1 dataset ..."
AssertSingleVal ==
    /\ dpc = "checked"
    /\ IF SingleVal(data)
         THEN dpc' = "one_val" /\ UNCHANGED derror
         ELSE Raise("AssertionError")
    /\ UNCHANGED <<data_yaml, checked, data, val_split, final_data, self_data,
                   training_data, dret, validator_args>>
    /\ UNCHANGED <<embVars, buildVars>>

\* "minival" if "lvis" in data["val"][0]["val"] else "val"
ValSplitOf(d) == IF Contains(Lvis, d.val[1].val) THEN "minival" ELSE "val"

\* for d in data["val"]: d["minival"] = str(d["path"] / d["minival"]),
\* unless d.get("minival") is None
FixMinival(ds) ==
    [i \in 1..Len(ds) |->
        IF ds[i].hasMinival
          THEN [ds[i] EXCEPT !.minival = PathJoin(ds[i].path, ds[i].minival)]
          ELSE ds[i]]

ChooseValSplit ==
    /\ dpc = "one_val"
    /\ val_split' = ValSplitOf(data)
    /\ data' = [data EXCEPT !.val = FixMinival(data.val)]
    /\ dpc' = "split"
    /\ UNCHANGED <<data_yaml, checked, final_data, self_data, training_data, dret,
                   derror, validator_args>>
    /\ UNCHANGED <<embVars, buildVars>>

\* [d["train" if s == "train" else val_split] for d in data[s]]
PathsOf(ds, key) ==
    [i \in 1..Len(ds) |->
        [type |-> "str",
         at |-> CASE key = "train" -> ds[i].train
                  [] key = "val" -> ds[i].val
                  [] OTHER -> ds[i].minival]]

\* d[val_split] is a KeyError on a dataset without a minival key
HasKey(ds, key) == key # "minival" \/ \A i \in 1..Len(ds) : ds[i].hasMinival

\* final_data[s] += grounding_data, once made a list
GroundingOf(section) ==
    [i \in 1..Len(section.grounding.items) |->
        [type |-> "dict", at |-> section.grounding.items[i]]]

\* for g in grounding_data: assert isinstance(g, dict)
GroundingOk(section) == section.grounding.kind # "str"

\* The loop over "train" and "val" that fills final_data, then nc, names
\* and path of the validation dataset
FillFinalData ==
    /\ dpc = "split"
    /\ IF ~GroundingOk(data_yaml.train)
         THEN Raise("AssertionError") /\ UNCHANGED final_data
         ELSE IF ~HasKey(data.val, val_split)
           THEN Raise("KeyError") /\ UNCHANGED final_data
           ELSE IF ~GroundingOk(data_yaml.val)
             THEN Raise("AssertionError") /\ UNCHANGED final_data
             ELSE /\ final_data' =
                        [set |-> TRUE,
                         train |-> PathsOf(data.train, "train") \o GroundingOf(data_yaml.train),
                         val |-> PathsOf(data.val, val_split) \o GroundingOf(data_yaml.val),
                         nc |-> data.val[1].nc,
                         names |-> data.val[1].names,
                         path |-> data.val[1].path]
                  /\ dpc' = "filled"
                  /\ UNCHANGED derror
    /\ UNCHANGED <<data_yaml, checked, data, val_split, self_data, training_data,
                   dret, validator_args>>
    /\ UNCHANGED <<embVars, buildVars>>

\* self.training_data = {}; for d in data["train"]: self.training_data[d["train"]] = d
TrainingData(ds) ==
    [k \in {ds[i].train : i \in 1..Len(ds)} |->
        ds[CHOOSE i \in 1..Len(ds) :
              ds[i].train = k /\ \A j \in 1..Len(ds) : ds[j].train = k => j <= i]]

\* self.data = final_data; self.training_data = ...;
\* return final_data["train"], final_data["val"][0]
AssignAndReturn ==
    /\ dpc = "filled"
    /\ self_data' = final_data
    /\ training_data' = [set |-> TRUE, map |-> TrainingData(data.train)]
    /\ dret' = [returned |-> TRUE, train |-> final_data.train, val |-> final_data.val[1]]
    /\ dpc' = "done"
    /\ UNCHANGED <<data_yaml, checked, data, val_split, final_data, derror,
                   validator_args>>
    /\ UNCHANGED <<embVars, buildVars>>

\* "minival" if isinstance(val, str) and "lvis" in val else "val"; the
\* entries of yolo_data are str
EvalSplitOf(val) == IF Contains(Lvis, val) THEN "minival" ELSE "val"

\* final_eval: val = self.args.data["val"]["yolo_data"][0];
\* self.validator.args.data = val; self.validator.args.split = ...
FinalEval ==
    /\ dpc = "done"
    /\ LET val == data_yaml.val.yolo_data[1] IN
         validator_args' = [set |-> TRUE, data |-> val, split |-> EvalSplitOf(val)]
    /\ dpc' = "evaluated"
    /\ UNCHANGED <<data_yaml, checked, data, val_split, final_data, self_data,
                   training_data, dret, derror>>
    /\ UNCHANGED <<embVars, buildVars>>

NextData ==
    \/ AssertTrain
    \/ AssertVal
    \/ CheckDatasets
    \/ AssertSingleVal
    \/ ChooseValSplit
    \/ FillFinalData
    \/ AssignAndReturn
    \/ FinalEval

\* ------------------------------------------------------------------------
\* Specifications
\* ------------------------------------------------------------------------
\* One trainer process calling generate_data_embeddings again and again
Init ==
    /\ EmbInit({1})
    /\ file = [c \in CachePaths |-> Absent]
    /\ BuildIdle
    /\ DataIdle
Next == EmbNext
Spec == Init /\ [][Next]_vars

\* Two trainer processes side by side, each calling generate_data_embeddings
\* once
InitRace ==
    /\ EmbInit({1, 2})
    /\ file = [c \in CachePaths |-> Absent]
    /\ BuildIdle
    /\ DataIdle
SpecRace == InitRace /\ [][EmbNext]_vars

\* One train-mode or val-mode build_dataset, over cache files of an earlier run
\* Cache files an earlier run may have left beside the first dataset
OldCaches ==
    {[c \in CachePaths |-> Absent],
     [c \in CachePaths |-> IF c = "pos_embeddings.pt"
                             THEN Saved(TxtMap(<<"cat">>, EncodeText(Tokenize(<<"cat">>))))
                             ELSE Absent],
     [c \in CachePaths |-> IF c = "neg_embeddings.pt"
                             THEN Saved(TxtMap(<<"dog">>, EncodeText(Tokenize(<<"dog">>))))
                             ELSE Absent]}

InitBuild ==
    /\ EmbInit({})
    /\ file \in OldCaches
    /\ bpc = "start"
    /\ mode \in {"train", "val"}
    /\ img_path \in DistinctSeqs(Sources, MaxSources)
    /\ (mode = "val" => Len(img_path) = 1)
    /\ bbatch \in 1..MaxBatch
    /\ datasets = <<>>
    /\ category_names = {}
    /\ category_freq = <<>>
    /\ neg_names = <<>>
    /\ pos_embeddings = EmptyMap
    /\ neg_embeddings = EmptyMap
    /\ result = NoResult
    /\ berror = "none"
    /\ DataIdle

SpecBuild == InitBuild /\ [][NextBuild]_vars

\* One get_dataset over a configuration, and the final_eval after it
InitData ==
    /\ EmbInit({})
    /\ file = [c \in CachePaths |-> Absent]
    /\ BuildIdle
    /\ dpc = "start"
    /\ data_yaml \in [train : Sections(TrainYamlNames), val : Sections(YamlNames)]
    /\ DataRest

SpecData == InitData /\ [][NextData]_vars

\* ------------------------------------------------------------------------
\* Properties of the embedding cache
\* ------------------------------------------------------------------------
AllChunks(p) == Split(Tokenize(texts[p]), batch[p])

\* C1: with no cache file to begin with, a call made after a call with the
\* same cache path has completed returns the mapping that call returned and
\* stored, and neither builds the text model nor encodes anything.
C1_SecondCallHitsCache ==
    \A p \in procs :
        seenStored[p].known =>
            /\ builds[p] = 0
            /\ encLog[p] = <<>>
            /\ pc[p] \in {"exists", "load", "idle"}
            /\ (pc[p] = "idle" =>
                    /\ outcome[p] = "hit"
                    /\ ret[p] = seenStored[p].map)

\* A second call with the path of a completed call has returned, for a
\* label list other than the one the mapping was computed for
C1_Witness ==
    /\ pc[1] = "idle"
    /\ outcome[1] = "hit"
    /\ seenStored[1].known
    /\ DOMAIN ret[1] # {}
    /\ DOMAIN ret[1] # Range(texts[1])

\* C2: the mapping a call returns has exactly the labels of that call as
\* its keys, also when the call found a cache file.
C2_KeysAreTexts ==
    \A p \in procs :
        (pc[p] = "idle" /\ outcome[p] \in {"hit", "miss"}) =>
            DOMAIN ret[p] = Range(texts[p])

\* C8: while chunks are still to encode the cache file does not exist, a
\* call that died in the encoder loop leaves no file, and the call after it
\* with that path encodes every chunk again, from the first one.
C8_NothingPersistedOnFailure ==
    \A p \in procs :
        /\ (pc[p] \in {"build", "encode"} => file[cache_path[p]] = Absent)
        /\ ((pc[p] = "idle" /\ outcome[p] = "EncodeError") =>
                file[cache_path[p]] = Absent)
        /\ ((afterFail[p] /\ pc[p] # "exists") =>
                /\ sawAbsent[p]
                /\ IsPrefix(encLog[p], AllChunks(p))
                /\ (pc[p] = "idle" => outcome[p] \in {"miss", "EncodeError"})
                /\ ((pc[p] = "idle" /\ outcome[p] = "miss") =>
                        /\ encLog[p] = AllChunks(p)
                        /\ DOMAIN ret[p] = Range(texts[p])))

\* The call after a failed one has encoded two chunks and written the file
C8_Witness ==
    /\ afterFail[1]
    /\ pc[1] = "idle"
    /\ outcome[1] = "miss"
    /\ Len(encLog[1]) = 2
    /\ file[cache_path[1]] = Saved(ret[1])

\* C7: nothing keeps a second writer out. A process whose check finds no
\* file goes on to compute whatever the other process is doing, a process
\* that has encoded its chunks can always write, and every process that
\* found no file and returned has encoded all its chunks.
C7_NoWriterExclusion ==
    \A p \in procs :
        /\ ((pc[p] = "exists" /\ file[cache_path[p]].state = "absent") =>
                ENABLED (Exists(p) /\ pc'[p] = "build"))
        /\ ((pc[p] = "encode" /\ Len(txt_feats[p]) = Len(text_tokens[p])) =>
                ENABLED SaveBegin(p))
        /\ (pc[p] = "saving" => ENABLED SaveEnd(p))
        /\ ((pc[p] = "idle" /\ outcome[p] = "miss") =>
                /\ sawAbsent[p]
                /\ encLog[p] = AllChunks(p))

\* Both processes found no file at the same path in their first call, both
\* encoded all their chunks and both wrote; the file holds the later write
C7_Witness ==
    /\ calls[1] = 1 /\ calls[2] = 1
    /\ cache_path[1] = cache_path[2]
    /\ pc[1] = "idle" /\ pc[2] = "idle"
    /\ outcome[1] = "miss" /\ outcome[2] = "miss"
    /\ sawAbsent[1] /\ sawAbsent[2]
    /\ encLog[1] = AllChunks(1) /\ encLog[2] = AllChunks(2)
    /\ Len(encLog[1]) = 2 /\ Len(encLog[2]) = 1
    /\ writes[cache_path[1]] = 2
    /\ ret[1] # ret[2]
    /\ file[cache_path[1]] = Saved(ret[2])

\* ------------------------------------------------------------------------
\* Properties of build_dataset
\* ------------------------------------------------------------------------
\* The count of label l in source entry e, 0 where e has no category_freq
\* or does not list l
CountIn(e, l) ==
    IF e.hasFreq /\ l \in DictKeys(e.freq) THEN DictGet(e.freq, l) ELSE 0

RECURSIVE TotalOver(_, _)
TotalOver(es, l) ==
    IF es = <<>> THEN 0 ELSE CountIn(Head(es), l) + TotalOver(Tail(es), l)

\* The labels some source dataset with category_freq lists
Listed == UNION {DictKeys(e.freq) : e \in {x \in Range(img_path) : x.hasFreq}}

AfterCount == {"counted", "pos", "neg", "injected", "done", "error"}

\* C3: the negative labels of a train-mode build_dataset are exactly the
\* listed labels whose count summed over the source datasets that have
\* category_freq is at least 100.
C3_NegativeLabels ==
    (mode = "train" /\ bpc \in AfterCount) =>
        /\ Range(neg_names) = {l \in Listed : TotalOver(img_path, l) >= 100}
        /\ \A l \in Listed : TotalOver(img_path, l) = 100 => l \in Range(neg_names)
        /\ \A l \in Listed : TotalOver(img_path, l) = 99 => l \notin Range(neg_names)
        /\ \A i, j \in 1..Len(neg_names) : i # j => neg_names[i] # neg_names[j]

\* Two sources sum to 100 for one label, which is selected, and to 99 for
\* another, which is not
C3_Witness ==
    /\ mode = "train"
    /\ bpc = "counted"
    /\ Len(img_path) = 2
    /\ \E l \in Listed : TotalOver(img_path, l) = 100 /\ l \in Range(neg_names)
                         /\ CountIn(img_path[1], l) < 100 /\ CountIn(img_path[2], l) < 100
    /\ \E l \in Listed : TotalOver(img_path, l) = 99 /\ l \notin Range(neg_names)

BuilderOf(e) == IF e.type = "str" THEN "build_yolo_dataset" ELSE "build_grounding"

\* C4: a train-mode build_dataset over one source returns the dataset built
\* from it, unwrapped; over two or more it returns a concatenation of the
\* built datasets in the order of img_path, each built by the builder of its
\* entry's type.
C4_SingleOrConcat ==
    (mode = "train" /\ bpc = "done") =>
        /\ Len(datasets) = Len(img_path)
        /\ \A i \in 1..Len(img_path) :
              /\ datasets[i].src = img_path[i].id
              /\ datasets[i].builder = BuilderOf(img_path[i])
        /\ (Len(img_path) = 1 =>
              /\ result.kind = "dataset"
              /\ result.members = <<datasets[1]>>)
        /\ (Len(img_path) >= 2 =>
              /\ result.kind = "concat"
              /\ result.members = datasets)

\* A concatenation of a grounding dataset and a plain one, in that order
C4_Witness ==
    /\ mode = "train"
    /\ bpc = "done"
    /\ Len(img_path) = 2
    /\ img_path[1].type = "dict" /\ img_path[2].type = "str"
    /\ result.kind = "concat"
    /\ result.members[1].builder = "build_grounding"
    /\ result.members[2].builder = "build_yolo_dataset"

AllStages ==
    UNION {{<<i, j>> : j \in 1..Len(datasets[i].transforms)} : i \in 1..Len(datasets)}

\* C9: once both embeddings are there, every stage with set_embeddings of
\* every dataset has been called once, with (pos_embeddings, neg_embeddings);
\* the other stages are never called; a dataset without category_names or
\* category_freq adds nothing to the aggregates and stops nothing.
C9_Injection ==
    mode = "train" =>
        /\ \A ij \in AllStages :
              LET st == datasets[ij[1]].transforms[ij[2]] IN
                /\ st.settable = img_path[ij[1]].stages[ij[2]]
                /\ st.got = IF st.settable /\ bpc \in {"injected", "done"}
                              THEN <<[pos |-> pos_embeddings, neg |-> neg_embeddings]>>
                              ELSE <<>>
        /\ (bpc \in {"named"} \cup AfterCount =>
              category_names = UNION {e.names : e \in {x \in Range(img_path) : x.hasNames}})
        /\ (bpc \in AfterCount =>
              /\ DictKeys(category_freq) = Listed
              /\ \A l \in Listed : DictGet(category_freq, l) = TotalOver(img_path, l))
        /\ (bpc \in {"neg", "injected", "done"} => berror = "none")
        /\ (bpc = "error" => berror \in {"IndexError", "EncodeError"})
        /\ (bpc = "done" => Len(datasets) = Len(img_path))

\* Two datasets, one of them without category_names and category_freq, with
\* stages of both sorts, after the injection
C9_Witness ==
    /\ mode = "train"
    /\ bpc = "done"
    /\ Len(datasets) = 2
    /\ ~datasets[1].hasNames /\ ~datasets[1].hasFreq
    /\ datasets[2].hasNames /\ datasets[2].hasFreq
    /\ \E ij \in AllStages : ij[1] = 2 /\ datasets[ij[1]].transforms[ij[2]].settable
                             /\ Len(datasets[ij[1]].transforms[ij[2]].got) = 1
    /\ \E ij \in AllStages : ~datasets[ij[1]].transforms[ij[2]].settable
    /\ DOMAIN pos_embeddings # {}

\* ------------------------------------------------------------------------
\* Properties of get_dataset and final_eval
\* ------------------------------------------------------------------------
BeforeSingleVal == {"start", "train_ok", "val_ok", "checked", "error"}

\* C5: get_dataset returns only for a validation section that lists one
\* yolo_data dataset; with two or more it never gets past the assertion on
\* their number, the error it ends with is an AssertionError, and self.data
\* and self.training_data are not assigned.
C5_SingleValOnly ==
    /\ (dpc \in {"done", "evaluated"} =>
          /\ data_yaml.val.hasYolo
          /\ Len(data_yaml.val.yolo_data) = 1
          /\ dret.returned)
    /\ (Len(data_yaml.val.yolo_data) >= 2 =>
          /\ dpc \in BeforeSingleVal
          /\ (dpc = "error" => derror = "AssertionError")
          /\ ~self_data.set
          /\ ~training_data.set
          /\ ~dret.returned)

\* Two validation datasets, a train section that passes, the datasets
\* checked, and the assertion on their number has failed
C5_Witness ==
    /\ Len(data_yaml.val.yolo_data) = 2
    /\ Truthy(data_yaml.train)
    /\ Len(data.val) = 2
    /\ dpc = "error"
    /\ derror = "AssertionError"

\* C6: with no train entry, or an empty one, get_dataset ends with an
\* AssertionError; no dataset has been checked by then and nothing of the
\* trainer has changed.
C6_TrainAssertedFirst ==
    ~Truthy(data_yaml.train) =>
        /\ dpc \in {"start", "error"}
        /\ (dpc = "error" => derror = "AssertionError")
        /\ checked = <<>>
        /\ data = [train |-> <<>>, val |-> <<>>]
        /\ ~final_data.set
        /\ ~self_data.set
        /\ ~training_data.set
        /\ ~dret.returned

\* No train entry, a validation section with a dataset to check, and the
\* assertion has failed
C6_Witness ==
    /\ ~data_yaml.train.present
    /\ Len(data_yaml.val.yolo_data) >= 1
    /\ dpc = "error"
    /\ derror = "AssertionError"
    /\ checked = <<>>

\* C10: the split final_eval gives the validator is the split get_dataset
\* resolved the validation path with.
C10_SameSplit ==
    dpc = "evaluated" => validator_args.split = val_split

====
